---- MODULE Spec2Model ----
(***************************************************************************)
(* State-machine model of two libsigrokdecode protocol decoders:           *)
(*   decoders/jtag_stm32/jtag_stm32.py  (JTAG / STM32 register decoder)    *)
(*   decoders/em4100/pd.py              (EM4100 RFID decoder)              *)
(*                                                                         *)
(* Python strings of '0'/'1' characters are sequences over {"0","1"}.      *)
(* Python's unbounded integers obtained from int('0b' + bits, 2) are kept  *)
(* as canonical binary numerals (most significant digit first, no leading  *)
(* zero, the empty numeral for 0), since a 32- or 35-bit register value    *)
(* does not fit TLC's integers.                                            *)
(***************************************************************************)
EXTENDS Integers, Sequences, FiniteSets, TLC

VARIABLES
    jtag_state,   \* jtag_stm32 Decoder.state
    jtag_out,     \* annotations put() by the most recent jtag decode call
    jtag_exc,     \* exception the most recent jtag decode call ended with
    jtag_call,    \* history: state before, cmd and val of the most recent call
    options,      \* em4100 Decoder.options, as the host configured them
    em,           \* the fields of the em4100 Decoder instance
    em_out,       \* annotations put() by the most recent em4100 call
    em_exc,       \* exception the most recent em4100 call ended with
    em_call,      \* history: the most recent em4100 call and its arguments
    em_raised,    \* history: a decode call has raised SamplerateError
    frame_hist,   \* history: the symbols fed to add_bit, by place in the frame
    stream_pos,   \* history: the last sample number the host delivered
    edge_hist,    \* history: the pulses of the edges delivered one by one
    sym_hist      \* history: the runs of the symbols fed to add_bit freely

jtag_vars == <<jtag_state, jtag_out, jtag_exc, jtag_call>>
em_vars ==
    <<options, em, em_out, em_exc, em_call, em_raised, frame_hist, stream_pos,
      edge_hist, sym_hist>>

(***************************************************************************)
(* Bounds of the model.                                                    *)
(***************************************************************************)
\* an instruction-register command carries every bit vector of at most
\* MaxIrBits bits, a data-register command every one of at most MaxDrBits
MaxIrBits == 5
MaxDrBits == 4
\* register-wide vectors (32 and 35 bits) take every pattern of HighBits bits
\* at their high end and of LowBits bits at their low end, with '0' between
HighBits == 1
LowBits == 4
\* the host announces a samplerate of at most MaxSamplerate
MaxSamplerate == 1
\* sample numbers run up to MaxSamplenum, at most MaxGap apart, and reach
\* decode in batches of at most MaxBatch samples
MaxSamplenum == 7
MaxGap == 1
MaxBatch == 2
\* add_bit is fed at most this many frames
MaxFrames == 2

(***************************************************************************)
(* Python string primitives.                                               *)
(***************************************************************************)
Min(a, b) == IF a < b THEN a ELSE b
Max(a, b) == IF a > b THEN a ELSE b

\* s[lo:hi] with Python's index rules: a negative index counts from the end,
\* both are clamped to 0..len(s). lo, hi are 0-based, hi exclusive.
PyNorm(i, n) == IF i < 0 THEN Max(i + n, 0) ELSE Min(i, n)
PySlice(s, lo, hi) ==
    LET n == Len(s)
        a == PyNorm(lo, n)
        b == PyNorm(hi, n)
    IN  IF a < b THEN SubSeq(s, a + 1, b) ELSE <<>>
\* s[lo:]
PySliceFrom(s, lo) == PySlice(s, lo, Len(s))
\* s[:hi]
PySliceTo(s, hi) == PySlice(s, 0, hi)
\* s[i] is defined (no IndexError)
PyHasIndex(s, i) == IF i < 0 THEN -i <= Len(s) ELSE i < Len(s)
\* s[i]
PyIndex(s, i) == IF i < 0 THEN s[Len(s) + i + 1] ELSE s[i + 1]
\* c * n
RECURSIVE PyRepeat(_, _)
PyRepeat(c, n) == IF n <= 0 THEN <<>> ELSE <<c>> \o PyRepeat(c, n - 1)

BitChars == {"0", "1"}

\* int('0b' + bits, 2) raises ValueError exactly when no digit follows '0b'
PyIntRaises(bits) == Len(bits) = 0
\* int('0b' + bits, 2): the binary numeral of the value, leading zeros dropped
RECURSIVE PyInt(_)
PyInt(bits) ==
    IF Len(bits) = 0 THEN <<>>
    ELSE IF Head(bits) = "0" THEN PyInt(Tail(bits))
    ELSE bits

LowerHex == <<"0", "1", "2", "3", "4", "5", "6", "7",
              "8", "9", "a", "b", "c", "d", "e", "f">>

\* the value 0..15 of a group of at most four binary digits
RECURSIVE NibbleValue(_)
NibbleValue(g) ==
    IF Len(g) = 0 THEN 0
    ELSE 2 * NibbleValue(SubSeq(g, 1, Len(g) - 1))
         + (IF g[Len(g)] = "1" THEN 1 ELSE 0)

\* '%x' % n for a binary numeral n: hexadecimal digits, lower case, no
\* leading zero, "0" for zero
RECURSIVE HexOfNumeral(_)
HexOfNumeral(n) ==
    IF Len(n) <= 4 THEN <<LowerHex[NibbleValue(n) + 1]>>
    ELSE HexOfNumeral(SubSeq(n, 1, Len(n) - 4))
         \o <<LowerHex[NibbleValue(SubSeq(n, Len(n) - 3, Len(n))) + 1]>>
PyHex(n) == HexOfNumeral(n)

(***************************************************************************)
(* jtag_stm32.py: tables.                                                  *)
(***************************************************************************)
\* the table with the DPACC and APACC keys exchanged
ir_keys_exchanged ==
    [k \in {<<"1","1","1","1">>, <<"1","1","1","0">>, <<"1","0","1","0">>,
            <<"1","0","1","1">>, <<"1","0","0","0">>} |->
       CASE k = <<"1","1","1","1">> -> <<"BYPASS", 1>>
         [] k = <<"1","1","1","0">> -> <<"IDCODE", 32>>
         [] k = <<"1","0","1","1">> -> <<"DPACC", 35>>
         [] k = <<"1","0","1","0">> -> <<"APACC", 35>>
         [] k = <<"1","0","0","0">> -> <<"ABORT", 35>>]

\* JTAG debug port data registers (in IR[3:0]) and their sizes (in bits)
ir == [k \in {<<"1","1","1","1">>, <<"1","1","1","0">>, <<"1","0","1","0">>,
              <<"1","0","1","1">>, <<"1","0","0","0">>} |->
         CASE k = <<"1","1","1","1">> -> <<"BYPASS", 1>>
           [] k = <<"1","1","1","0">> -> <<"IDCODE", 32>>
           [] k = <<"1","0","1","0">> -> <<"DPACC", 35>>
           [] k = <<"1","0","1","1">> -> <<"APACC", 35>>
           [] k = <<"1","0","0","0">> -> <<"ABORT", 35>>]

\* ACK[2:0] in the DPACC/APACC registers
ack_val == [k \in [1..3 -> BitChars] |->
              CASE k = <<"0","0","1">> -> "WAIT"
                [] k = <<"0","1","0">> -> "OK/FAULT"
                [] OTHER -> "Reserved"]

\* 32bit debug port registers (addressed via A[3:2])
reg == [k \in [1..2 -> BitChars] |->
          CASE k = <<"0","0">> -> "Reserved"
            [] k = <<"0","1">> -> "DP CTRL/STAT"
            [] k = <<"1","0">> -> "DP SELECT"
            [] k = <<"1","1">> -> "DP RDBUFF"]

\* d.get(key, default)
DictGet(d, key, default) == IF key \in DOMAIN d THEN d[key] ELSE default

(***************************************************************************)
(* jtag_stm32.py: register handlers. Each yields the annotation texts it   *)
(* put() before returning or raising, and the exception it raised.  A text *)
(* is the tuple of the pieces Python concatenates or formats.              *)
(***************************************************************************)
Handled(out, exc) == [out |-> out, exc |-> exc]

handle_reg_bypass(bits) == Handled(<< <<"BYPASS: ", bits>> >>, "none")

\* handle_reg_idcode reading the vector with its leftmost bit least significant
RECURSIVE Reversed(_)
Reversed(q) == IF Len(q) = 0 THEN <<>> ELSE Reversed(Tail(q)) \o <<Head(q)>>
handle_reg_idcode_lsb_first(bits) ==
    IF PyIntRaises(bits) THEN Handled(<<>>, "ValueError")
    ELSE Handled(<< <<"IDCODE: 0x", PyHex(PyInt(Reversed(bits)))>> >>, "none")

handle_reg_idcode(bits) ==
    IF PyIntRaises(bits) THEN Handled(<<>>, "ValueError")
    ELSE Handled(<< <<"IDCODE: 0x", PyHex(PyInt(bits))>> >>, "none")

\* the body with the address taken from bits[-2:]
AccessRegister_low_address(name, bits) ==
    LET first == << <<name, bits>> >>
        data  == PySliceTo(bits, -3)
        a     == PySliceFrom(bits, -2)
        ack   == PySliceFrom(bits, -3)
    IN  IF ~PyHasIndex(bits, -1) THEN Handled(first, "IndexError")
        ELSE IF PyIntRaises(data) THEN Handled(first, "ValueError")
        ELSE IF a \notin DOMAIN reg THEN Handled(first, "KeyError")
        ELSE LET rnw      == PyIndex(bits, -1)
                 data_hex == PyHex(PyInt(data))
                 r        == IF rnw = "1" THEN "Read request" ELSE "Write request"
                 s_in     == <<"DATA: 0x", data_hex, ", A: ", reg[a], ", RnW: ", r>>
             IN  IF ack \notin DOMAIN ack_val
                 THEN Handled(first \o <<s_in>>, "KeyError")
                 ELSE Handled(first \o <<s_in,
                                <<"DATA: 0x", data_hex, ", ACK: ", ack_val[ack]>> >>,
                              "none")

\* the body shared, line for line, by handle_reg_dpacc and handle_reg_apacc
AccessRegister(name, bits) ==
    LET first == << <<name, bits>> >>
        data  == PySliceTo(bits, -3)
        a     == PySlice(bits, -3, -1)
        ack   == PySliceFrom(bits, -3)
    IN  IF ~PyHasIndex(bits, -1) THEN Handled(first, "IndexError")
        ELSE IF PyIntRaises(data) THEN Handled(first, "ValueError")
        ELSE IF a \notin DOMAIN reg THEN Handled(first, "KeyError")
        ELSE LET rnw      == PyIndex(bits, -1)
                 data_hex == PyHex(PyInt(data))
                 r        == IF rnw = "1" THEN "Read request" ELSE "Write request"
                 s_in     == <<"DATA: 0x", data_hex, ", A: ", reg[a], ", RnW: ", r>>
             IN  IF ack \notin DOMAIN ack_val
                 THEN Handled(first \o <<s_in>>, "KeyError")
                 ELSE Handled(first \o <<s_in,
                                <<"DATA: 0x", data_hex, ", ACK: ", ack_val[ack]>> >>,
                              "none")

handle_reg_dpacc(bits) == AccessRegister("DPACC: ", bits)

handle_reg_apacc(bits) == AccessRegister("APACC: ", bits)

handle_reg_abort(bits) ==
    IF ~PyHasIndex(bits, 0) THEN Handled(<<>>, "IndexError")
    ELSE LET a == IF PyIndex(bits, 0) = "1" THEN "" ELSE "No "
             s == <<"DAPABORT = ", PyIndex(bits, 0), ": ", a, "DAP abort generated">>
         IN  IF PySliceTo(bits, -1) # PyRepeat("0", 31)
             THEN Handled(<<s, <<"WARNING: DAPABORT[31:1] reserved!">> >>, "none")
             ELSE Handled(<<s>>, "none")

\* 'Unknown instruction: ' % bits: the format string has no conversion, so
\* Python raises TypeError for every str argument, before put() is called
handle_reg_unknown(bits) == Handled(<<>>, "TypeError")

\* getattr(self, 'handle_reg_%s' % self.state.lower())
handle_reg(state, bits) ==
    CASE state = "BYPASS"  -> handle_reg_bypass(bits)
      [] state = "IDCODE"  -> handle_reg_idcode(bits)
      [] state = "DPACC"   -> handle_reg_dpacc(bits)
      [] state = "APACC"   -> handle_reg_apacc(bits)
      [] state = "ABORT"   -> handle_reg_abort(bits)
      [] state = "UNKNOWN" -> handle_reg_unknown(bits)

(***************************************************************************)
(* jtag_stm32.py: Decoder.decode.  The result is the state after the call, *)
(* what was put(), and the exception raised ("none": a normal return).  A  *)
(* handler that raises leaves decode before self.state = 'IDLE'.  The test *)
(* self.state in ('BYPASS') is a substring test on a string; of the seven  *)
(* state names only 'BYPASS' passes it.                                    *)
(***************************************************************************)
Decoded(state, out, exc) == [state |-> state, out |-> out, exc |-> exc]

\* decode with BYPASS handled in the branch of the other registers, which
\* takes outgoing bits (TDO) too
jtag_decode_bypass_tdo(state, cmd, val) ==
    IF state = "IDLE" THEN
        IF cmd # "IR TDI" THEN Decoded(state, <<>>, "none")
        ELSE LET new == DictGet(ir, PySliceFrom(val, -4), <<"UNKNOWN", 0>>)[1]
             IN  Decoded(new, << <<"IR: ", new>> >>, "none")
    ELSE IF state \in {"BYPASS", "IDCODE", "DPACC", "APACC", "ABORT", "UNKNOWN"}
    THEN
        IF cmd \notin {"DR TDI", "DR TDO"} THEN Decoded(state, <<>>, "none")
        ELSE LET h == handle_reg(state, val)
             IN  Decoded(IF h.exc = "none" THEN "IDLE" ELSE state, h.out, h.exc)
    ELSE Decoded(state, <<>>, "Exception")

jtag_decode(state, cmd, val) ==
    IF state = "IDLE" THEN
        IF cmd # "IR TDI" THEN Decoded(state, <<>>, "none")
        ELSE LET new == DictGet(ir, PySliceFrom(val, -4), <<"UNKNOWN", 0>>)[1]
             IN  Decoded(new, << <<"IR: ", new>> >>, "none")
    ELSE IF state = "BYPASS" THEN
        IF cmd # "DR TDI" THEN Decoded(state, <<>>, "none")
        ELSE LET h == handle_reg(state, val)
             IN  Decoded(IF h.exc = "none" THEN "IDLE" ELSE state, h.out, h.exc)
    ELSE IF state \in {"IDCODE", "DPACC", "APACC", "ABORT", "UNKNOWN"} THEN
        IF cmd \notin {"DR TDI", "DR TDO"} THEN Decoded(state, <<>>, "none")
        ELSE LET h == handle_reg(state, val)
             IN  Decoded(IF h.exc = "none" THEN "IDLE" ELSE state, h.out, h.exc)
    ELSE Decoded(state, <<>>, "Exception")

(***************************************************************************)
(* Inputs of jtag decode.                                                  *)
(***************************************************************************)
BitStrings(n) == UNION {[1..k -> BitChars] : k \in 0..n}

\* vectors of w bits: a pattern at each end, zeros between
WideVectors(w) ==
    {hi \o PyRepeat("0", w - HighBits - LowBits) \o lo :
        hi \in [1..HighBits -> BitChars], lo \in [1..LowBits -> BitChars]}

\* the (cmd, val) pairs the stacked jtag decoder sends: the bits shifted
\* through the instruction or a data register, or a TAP state change (whose
\* val, a state name, no branch of decode reads)
JtagInputs ==
    ({"IR TDI", "IR TDO"} \X BitStrings(MaxIrBits))
    \cup ({"DR TDI", "DR TDO"}
          \X (BitStrings(MaxDrBits) \cup WideVectors(32) \cup WideVectors(35)))
    \cup {<<"NEW STATE", <<>> >>}

JtagInit ==
    /\ jtag_state = "IDLE"
    /\ jtag_out = <<>>
    /\ jtag_exc = "none"
    /\ jtag_call = [state |-> "none", cmd |-> "none", val |-> <<>>]

\* one decode(ss, es, (cmd, val)) call
JtagDecode ==
    \E in \in JtagInputs :
        LET d == jtag_decode(jtag_state, in[1], in[2])
        IN  /\ jtag_state' = d.state
            /\ jtag_out' = d.out
            /\ jtag_exc' = d.exc
            /\ jtag_call' = [state |-> jtag_state, cmd |-> in[1], val |-> in[2]]
            /\ UNCHANGED em_vars

(***************************************************************************)
(* em4100/pd.py.  None is -1 (samplerate, oldpin and the sample numbers    *)
(* are never negative otherwise).  bit_width and halfbit_limit are Python  *)
(* floats: they are kept as exact fractions num/den.  The bit_start and    *)
(* bit_stop handed to putbit and add_bit may be floats ending in .5 (line  *)
(* 203): they, and the fields first_start and data_start that store them,  *)
(* are counted in half samples; every use of them is through int().        *)
(***************************************************************************)
None == -1

\* int(x) of a position x >= 0 given in half samples: whole samples
PyTrunc(h) == h \div 2
\* a whole sample number in half samples
Halves(n) == 2 * n
\* a ^ b on bits
BitXor(a, b) == (a + b) % 2

\* int(s) of the option strings the decoder declares
OptionInt(s) ==
    CASE s = "64" -> 64 [] s = "32" -> 32 [] s = "16" -> 16
      [] s = "125000" -> 125000 [] s = "8" -> 8

Zeros6 == [i \in 0..5 |-> 0]

\* Decoder.__init__
em_init ==
    [samplerate |-> None, oldpin |-> None, last_samplenum |-> None,
     lastlast_samplenum |-> None, last_edge |-> 0,
     bit_width |-> [num |-> 0, den |-> 1],
     halfbit_limit |-> [num |-> 0, den |-> 1],
     oldpp |-> 0, oldpl |-> 0, oldsamplenum |-> 0, last_bit_pos |-> 0,
     first_start |-> 0, first_one |-> 0, state |-> "HEADER", data |-> 0,
     data_bits |-> 0, data_start |-> 0, data_parity |-> 0, payload_cnt |-> 0,
     data_col_parity |-> Zeros6, col_parity |-> Zeros6,
     polarity |-> None]

\* self.put(int(ss), int(es), self.out_ann, [idx, texts])
Ann(ss, es, idx, texts) ==
    [ss |-> PyTrunc(ss), es |-> PyTrunc(es), idx |-> idx, txt |-> texts]

UpperHex == <<"0", "1", "2", "3", "4", "5", "6", "7",
              "8", "9", "A", "B", "C", "D", "E", "F">>
\* str("%X" % n)
RECURSIVE PyUpperHex(_)
PyUpperHex(n) ==
    IF n < 16 THEN <<UpperHex[n + 1]>>
    ELSE PyUpperHex(n \div 16) \o <<UpperHex[(n % 16) + 1]>>

Stepped(s, out) == [s |-> s, out |-> out]

\* add_bit's HEADER branch with line 103 (self.first_one = 0) left out
add_bit_header_keeps_run(s, bit, bit_start, bit_stop) ==
    IF bit = 1 THEN
        LET n == IF s.first_one > 0 THEN s.first_one + 1 ELSE s.first_one
        IN  IF n = 9
            THEN Stepped([s EXCEPT !.first_one = n, !.state = "PAYLOAD"],
                         <<Ann(s.first_start, bit_stop, 1,
                               <<"Header", "Head", "He", "H">>)>>)
            ELSE IF n = 0
            THEN Stepped([s EXCEPT !.first_one = 1, !.first_start = bit_start],
                         <<>>)
            ELSE Stepped([s EXCEPT !.first_one = n], <<>>)
    ELSE IF bit = 0 THEN Stepped([s EXCEPT !.first_one = 0], <<>>)
    ELSE Stepped(s, <<>>)

\* add_bit's HEADER branch with lines 110-111 left out: a 0 does not reset
\* the run
add_bit_header_no_reset(s, bit, bit_start, bit_stop) ==
    IF bit = 1 THEN
        LET n == IF s.first_one > 0 THEN s.first_one + 1 ELSE s.first_one
        IN  IF n = 9
            THEN Stepped([s EXCEPT !.first_one = 0, !.state = "PAYLOAD"],
                         <<Ann(s.first_start, bit_stop, 1,
                               <<"Header", "Head", "He", "H">>)>>)
            ELSE IF n = 0
            THEN Stepped([s EXCEPT !.first_one = 1, !.first_start = bit_start],
                         <<>>)
            ELSE Stepped([s EXCEPT !.first_one = n], <<>>)
    ELSE Stepped(s, <<>>)

\* Decoder.add_bit, state HEADER
add_bit_header(s, bit, bit_start, bit_stop) ==
    IF bit = 1 THEN
        LET n == IF s.first_one > 0 THEN s.first_one + 1 ELSE s.first_one
        IN  IF n = 9
            THEN Stepped([s EXCEPT !.first_one = 0, !.state = "PAYLOAD"],
                         <<Ann(s.first_start, bit_stop, 1,
                               <<"Header", "Head", "He", "H">>)>>)
            ELSE IF n = 0
            THEN Stepped([s EXCEPT !.first_one = 1, !.first_start = bit_start],
                         <<>>)
            ELSE Stepped([s EXCEPT !.first_one = n], <<>>)
    ELSE IF bit = 0 THEN Stepped([s EXCEPT !.first_one = 0], <<>>)
    ELSE Stepped(s, <<>>)

\* the first bit of a group (lines 116-119, and again 146-149): a new nibble
start_group_keeps_parity(s, bit_start) ==
    IF s.data_bits = 0
    THEN [s EXCEPT !.data_start = bit_start, !.data = 0]
    ELSE s

\* the first bit of a group with line 118 (self.data = 0) left out
start_group_keeps_data(s, bit_start) ==
    IF s.data_bits = 0
    THEN [s EXCEPT !.data_start = bit_start, !.data_parity = 0]
    ELSE s

start_group(s, bit_start) ==
    IF s.data_bits = 0
    THEN [s EXCEPT !.data_start = bit_start, !.data = 0, !.data_parity = 0]
    ELSE s

\* the PAYLOAD branch leaving for TRAILER after 40 symbols, the data bits of
\* ten groups, instead of 50
add_bit_payload_counts_data_bits(s, bit, bit_start, bit_stop) ==
    LET s1 == [s EXCEPT !.payload_cnt = @ + 1]
        s2 == start_group(s1, bit_start)
        s3 == [s2 EXCEPT !.data_bits = @ + 1]
        p_string == IF s3.data_parity = bit THEN <<"OK", "O">>
                    ELSE <<"ERROR", "ERR", "ER", "E">>
        out == IF s3.data_bits = 5
               THEN <<Ann(s3.data_start, bit_start, 2, <<"Data", "Da", "D">>),
                      Ann(bit_start, bit_stop, 4, <<"Parity", "Par", "Pa", "P">>),
                      Ann(s3.data_start, bit_start, 3, <<PyUpperHex(s3.data)>>),
                      Ann(bit_start, bit_stop, 6, p_string)>>
               ELSE <<>>
        s4 == IF s3.data_bits = 5
              THEN IF s3.payload_cnt = 40
                   THEN [s3 EXCEPT !.data_bits = 0, !.state = "TRAILER",
                                   !.payload_cnt = 0]
                   ELSE [s3 EXCEPT !.data_bits = 0]
              ELSE s3
    IN  Stepped([s4 EXCEPT !.data_parity = BitXor(@, bit),
                           !.data_col_parity[s4.data_bits] = BitXor(@, bit),
                           !.data = 2 * @ + bit],
                out)

\* Decoder.add_bit, state PAYLOAD
add_bit_payload(s, bit, bit_start, bit_stop) ==
    LET s1 == [s EXCEPT !.payload_cnt = @ + 1]
        s2 == start_group(s1, bit_start)
        s3 == [s2 EXCEPT !.data_bits = @ + 1]
        p_string == IF s3.data_parity = bit THEN <<"OK", "O">>
                    ELSE <<"ERROR", "ERR", "ER", "E">>
        out == IF s3.data_bits = 5
               THEN <<Ann(s3.data_start, bit_start, 2, <<"Data", "Da", "D">>),
                      Ann(bit_start, bit_stop, 4, <<"Parity", "Par", "Pa", "P">>),
                      Ann(s3.data_start, bit_start, 3, <<PyUpperHex(s3.data)>>),
                      Ann(bit_start, bit_stop, 6, p_string)>>
               ELSE <<>>
        s4 == IF s3.data_bits = 5
              THEN IF s3.payload_cnt = 50
                   THEN [s3 EXCEPT !.data_bits = 0, !.state = "TRAILER",
                                   !.payload_cnt = 0]
                   ELSE [s3 EXCEPT !.data_bits = 0]
              ELSE s3
    IN  Stepped([s4 EXCEPT !.data_parity = BitXor(@, bit),
                           !.data_col_parity[s4.data_bits] = BitXor(@, bit),
                           !.data = 2 * @ + bit],
                out)

\* the fifth trailer bit (lines 168-173): back to HEADER, accumulators zeroed
end_frame_keeps_parity(s) ==
    IF s.payload_cnt = 5
    THEN [s EXCEPT !.data_bits = 0, !.state = "HEADER", !.payload_cnt = 0,
                   !.col_parity = Zeros6]
    ELSE [s EXCEPT !.data_bits = 0]

end_frame(s) ==
    IF s.payload_cnt = 5
    THEN [s EXCEPT !.data_bits = 0, !.state = "HEADER", !.payload_cnt = 0,
                   !.data_col_parity = Zeros6, !.col_parity = Zeros6]
    ELSE [s EXCEPT !.data_bits = 0]

\* Decoder.add_bit, state TRAILER
add_bit_trailer(s, bit, bit_start, bit_stop) ==
    LET s1 == [s EXCEPT !.payload_cnt = @ + 1]
        s2 == start_group(s1, bit_start)
        s3 == [s2 EXCEPT !.data_bits = @ + 1]
        s4 == [s3 EXCEPT !.col_parity[s3.data_bits] = bit]
        p_string == IF \A i \in 1..4 : s4.data_col_parity[i] = s4.col_parity[i]
                    THEN <<"OK", "O">>
                    ELSE <<"ERROR", "ERR", "ER", "E">>
    IN  IF s4.data_bits = 5
        THEN Stepped(
                end_frame(s4),
                <<Ann(s4.data_start, bit_start, 4,
                      <<"Column parity", "Col par", "CP", "P">>),
                  Ann(bit_start, bit_stop, 4,
                      <<"Stop bit", "St bi", "SB", "S">>),
                  Ann(s4.data_start, bit_start, 6, p_string)>>)
        ELSE Stepped(s4, <<>>)

\* Decoder.add_bit
add_bit(s, bit, bit_start, bit_stop) ==
    CASE s.state = "HEADER"  -> add_bit_header(s, bit, bit_start, bit_stop)
      [] s.state = "PAYLOAD" -> add_bit_payload(s, bit, bit_start, bit_stop)
      [] s.state = "TRAILER" -> add_bit_trailer(s, bit, bit_start, bit_stop)
      [] OTHER -> Stepped(s, <<>>)

\* str(bit)
PyStr(bit) == IF bit = 1 THEN "1" ELSE "0"

\* Decoder.putbit
putbit(s, bit, bit_start, bit_stop) ==
    LET r == add_bit(s, bit, bit_start, bit_stop)
    IN  Stepped(r.s, <<Ann(bit_start, bit_stop, 0, <<PyStr(bit)>>)>> \o r.out)

\* pl > f with a pulse of exactly f taken for a long one
Gt_or_equal(pl, f) == pl * f.den >= f.num

\* pl > f and pl < f for an integer pl and a fraction f
Gt(pl, f) == pl * f.den > f.num
Lt(pl, f) == pl * f.den < f.num

\* f / k and f + g on fractions (g's denominator a multiple of f's, or not)
FracDiv(f, k) == [num |-> f.num, den |-> f.den * k]
FracAdd(f, g) ==
    IF g.den % f.den = 0
    THEN [num |-> f.num * (g.den \div f.den) + g.num, den |-> g.den]
    ELSE [num |-> f.num * g.den + g.num * f.den, den |-> f.den * g.den]

\* manchester_decode without the test of line 208: a short pulse after a
\* short one always brings a symbol
manchester_decode_no_anchor(s, samplenum, pl, pp, pin) ==
    LET bit == BitXor(s.oldpin, s.polarity)
        mid == PyTrunc(Halves(samplenum) - pl)
        sym ==
            IF Gt(pl, s.halfbit_limit) THEN
                IF Gt(s.oldpl, s.halfbit_limit)
                THEN [put |-> TRUE, pos |-> mid, bit_stop |-> Halves(mid),
                      bit_start |->
                          Halves(PyTrunc(Halves(s.oldsamplenum) - s.oldpl))]
                ELSE [put |-> TRUE, pos |-> mid, bit_stop |-> Halves(mid),
                      bit_start |-> Halves(s.oldsamplenum - s.oldpl)]
            ELSE IF Lt(pl, s.halfbit_limit) THEN
                IF Gt(s.oldpl, s.halfbit_limit)
                THEN [put |-> TRUE, pos |-> samplenum,
                      bit_stop |-> Halves(samplenum),
                      bit_start |-> Halves(s.oldsamplenum) - s.oldpl]
                ELSE [put |-> TRUE, pos |-> samplenum,
                      bit_stop |-> Halves(samplenum),
                      bit_start |-> Halves(s.oldsamplenum - s.oldpl)]
            ELSE [put |-> FALSE, pos |-> s.last_bit_pos,
                  bit_stop |-> 0, bit_start |-> 0]
    IN  IF sym.put
        THEN LET r == putbit(s, bit, sym.bit_start, sym.bit_stop)
             IN  Stepped([r.s EXCEPT !.last_bit_pos = sym.pos], r.out)
        ELSE Stepped(s, <<>>)

\* Decoder.manchester_decode.  pp is only stored by the caller and t
\* (samples / self.samplerate) is computed and never used.  At most one of
\* the four putbit calls is made: sym is that call's bit_start and bit_stop,
\* pos the value then (or, for a long pulse, in any case) assigned to
\* last_bit_pos.
manchester_decode(s, samplenum, pl, pp, pin) ==
    LET bit == BitXor(s.oldpin, s.polarity)
        mid == PyTrunc(Halves(samplenum) - pl)
        sym ==
            IF Gt(pl, s.halfbit_limit) THEN
                IF Gt(s.oldpl, s.halfbit_limit)
                THEN [put |-> TRUE, pos |-> mid, bit_stop |-> Halves(mid),
                      bit_start |->
                          Halves(PyTrunc(Halves(s.oldsamplenum) - s.oldpl))]
                ELSE [put |-> TRUE, pos |-> mid, bit_stop |-> Halves(mid),
                      bit_start |-> Halves(s.oldsamplenum - s.oldpl)]
            ELSE IF Lt(pl, s.halfbit_limit) THEN
                IF Gt(s.oldpl, s.halfbit_limit)
                THEN [put |-> TRUE, pos |-> samplenum,
                      bit_stop |-> Halves(samplenum),
                      bit_start |-> Halves(s.oldsamplenum) - s.oldpl]
                ELSE IF s.last_bit_pos <= s.oldsamplenum - s.oldpl
                THEN [put |-> TRUE, pos |-> samplenum,
                      bit_stop |-> Halves(samplenum),
                      bit_start |-> Halves(s.oldsamplenum - s.oldpl)]
                ELSE [put |-> FALSE, pos |-> s.last_bit_pos,
                      bit_stop |-> 0, bit_start |-> 0]
            ELSE [put |-> FALSE, pos |-> s.last_bit_pos,
                  bit_stop |-> 0, bit_start |-> 0]
    IN  IF sym.put
        THEN LET r == putbit(s, bit, sym.bit_start, sym.bit_stop)
             IN  Stepped([r.s EXCEPT !.last_bit_pos = sym.pos], r.out)
        ELSE Stepped(s, <<>>)

\* decode's loop body with an identical sample still moving oldsamplenum
decode_sample_tracks_last(s, samplenum, pin) ==
    IF s.oldpin = pin THEN Stepped([s EXCEPT !.oldsamplenum = samplenum], <<>>)
    ELSE IF s.oldpin = None
    THEN Stepped([s EXCEPT !.oldpin = pin, !.last_samplenum = samplenum,
                           !.lastlast_samplenum = samplenum,
                           !.last_edge = samplenum, !.oldpl = 0, !.oldpp = 0,
                           !.oldsamplenum = 0, !.last_bit_pos = 0],
                 <<>>)
    ELSE LET pl == samplenum - s.oldsamplenum
             pp == pin
             r  == manchester_decode(s, samplenum, pl, pp, pin)
         IN  Stepped([r.s EXCEPT !.oldpl = pl, !.oldpp = pp,
                                 !.oldsamplenum = samplenum, !.oldpin = pin],
                     r.out)

\* decode's loop body with line 239 (self.oldpl = pl) left out
decode_sample_keeps_oldpl(s, samplenum, pin) ==
    IF s.oldpin = pin THEN Stepped(s, <<>>)
    ELSE IF s.oldpin = None
    THEN Stepped([s EXCEPT !.oldpin = pin, !.last_samplenum = samplenum,
                           !.lastlast_samplenum = samplenum,
                           !.last_edge = samplenum, !.oldpl = 0, !.oldpp = 0,
                           !.oldsamplenum = 0, !.last_bit_pos = 0],
                 <<>>)
    ELSE LET pl == samplenum - s.oldsamplenum
             pp == pin
             r  == manchester_decode(s, samplenum, pl, pp, pin)
         IN  Stepped([r.s EXCEPT !.oldpp = pp,
                                 !.oldsamplenum = samplenum, !.oldpin = pin],
                     r.out)

\* the body of decode's loop, for one (samplenum, (pin,))
decode_sample(s, samplenum, pin) ==
    IF s.oldpin = pin THEN Stepped(s, <<>>)
    ELSE IF s.oldpin = None
    THEN Stepped([s EXCEPT !.oldpin = pin, !.last_samplenum = samplenum,
                           !.lastlast_samplenum = samplenum,
                           !.last_edge = samplenum, !.oldpl = 0, !.oldpp = 0,
                           !.oldsamplenum = 0, !.last_bit_pos = 0],
                 <<>>)
    ELSE LET pl == samplenum - s.oldsamplenum
             pp == pin
             r  == manchester_decode(s, samplenum, pl, pp, pin)
         IN  Stepped([r.s EXCEPT !.oldpl = pl, !.oldpp = pp,
                                 !.oldsamplenum = samplenum, !.oldpin = pin],
                     r.out)

\* for (samplenum, (pin,)) in data: acc is the instance and what it has put
\* so far
RECURSIVE decode_loop(_, _)
decode_loop(acc, data) ==
    IF Len(data) = 0 THEN acc
    ELSE decode_loop(
            LET r == decode_sample(acc.s, Head(data)[1], Head(data)[2])
            IN  Stepped(r.s, acc.out \o r.out),
            Tail(data))

\* not self.samplerate
Falsy(x) == x = None \/ x = 0

Called(s, out, exc) == [s |-> s, out |-> out, exc |-> exc]

\* decode with the samplerate looked at only after the loop
em4100_decode_checks_late(s, data) ==
    LET r == decode_loop(Stepped(s, <<>>), data)
    IN  IF Falsy(s.samplerate) THEN Called(r.s, r.out, "SamplerateError")
        ELSE Called(r.s, r.out, "none")

\* Decoder.decode
em4100_decode(s, data) ==
    IF Falsy(s.samplerate) THEN Called(s, <<>>, "SamplerateError")
    ELSE LET r == decode_loop(Stepped(s, <<>>), data)
         IN  Called(r.s, r.out, "none")

\* metadata with samplerate / coilfreq taken as a floor division
metadata_floor_division(s, opts, key, value) ==
    LET s1 == IF key = "SRD_CONF_SAMPLERATE"
              THEN [s EXCEPT !.samplerate = value] ELSE s
    IN  IF s1.samplerate = None THEN Called(s1, <<>>, "TypeError")
        ELSE LET bit_width ==
                     [num |-> (s1.samplerate \div OptionInt(opts.coilfreq))
                              * OptionInt(opts.datarate),
                      den |-> 1]
             IN  Called([s1 EXCEPT
                            !.bit_width = bit_width,
                            !.halfbit_limit = FracAdd(FracDiv(bit_width, 2),
                                                      FracDiv(bit_width, 4)),
                            !.polarity = IF opts.polarity = "active-low"
                                         THEN 0 ELSE 1],
                        <<>>, "none")

\* metadata with the two values of line 90 exchanged
metadata_polarity_swapped(s, opts, key, value) ==
    LET s1 == IF key = "SRD_CONF_SAMPLERATE"
              THEN [s EXCEPT !.samplerate = value] ELSE s
    IN  IF s1.samplerate = None THEN Called(s1, <<>>, "TypeError")
        ELSE LET bit_width ==
                     [num |-> s1.samplerate * OptionInt(opts.datarate),
                      den |-> OptionInt(opts.coilfreq)]
             IN  Called([s1 EXCEPT
                            !.bit_width = bit_width,
                            !.halfbit_limit = FracAdd(FracDiv(bit_width, 2),
                                                      FracDiv(bit_width, 4)),
                            !.polarity = IF opts.polarity = "active-low"
                                         THEN 1 ELSE 0],
                        <<>>, "none")

\* Decoder.metadata.  With no samplerate yet, None / int raises TypeError.
metadata(s, opts, key, value) ==
    LET s1 == IF key = "SRD_CONF_SAMPLERATE"
              THEN [s EXCEPT !.samplerate = value] ELSE s
    IN  IF s1.samplerate = None THEN Called(s1, <<>>, "TypeError")
        ELSE LET bit_width ==
                     [num |-> s1.samplerate * OptionInt(opts.datarate),
                      den |-> OptionInt(opts.coilfreq)]
             IN  Called([s1 EXCEPT
                            !.bit_width = bit_width,
                            !.halfbit_limit = FracAdd(FracDiv(bit_width, 2),
                                                      FracDiv(bit_width, 4)),
                            !.polarity = IF opts.polarity = "active-low"
                                         THEN 0 ELSE 1],
                        <<>>, "none")

(***************************************************************************)
(* The em4100 instance: construction, and the calls the host makes.        *)
(***************************************************************************)
DefaultOptions ==
    [polarity |-> "active-high", datarate |-> "64", coilfreq |-> "125000"]

\* the option values the decoder declares; coilfreq is free text, and "8"
\* puts the bit width within a few samples
OptionSets ==
    [polarity : {"active-low", "active-high"},
     datarate : {"64", "32", "16"},
     coilfreq : {"125000", "8"}]

NoHist ==
    [fed |-> 0, grp |-> <<>>, cols |-> [c \in 1..4 |-> 0],
     counts |-> [k \in {"Header", "Data", "Parity", "Value", "RowVerdict",
                        "Column parity", "Stop bit", "ColVerdict"} |-> 0]]

\* no edge delivered yet
NoEdges ==
    [edges |-> 0, pl |-> 0, oldpl |-> 0, wf |-> TRUE, longs |-> 0,
     shorts |-> 0, run |-> 0, syms |-> 0, last_stop |-> None,
     prev_stop |-> None]

\* no symbol fed yet
NoSymbols ==
    [fed |-> 0, was |-> "none", stay |-> 0, visit |-> 0, ones |-> 0,
     run |-> 0, run_start |-> 0]

EmInit ==
    /\ options \in OptionSets
    /\ em = em_init
    /\ em_out = <<>>
    /\ em_exc = "none"
    /\ em_call = [op |-> "none", arg |-> <<>>]
    /\ em_raised = FALSE
    /\ frame_hist = NoHist
    /\ stream_pos = -1
    /\ edge_hist = NoEdges
    /\ sym_hist = NoSymbols

\* metadata(key, value): the host announces the samplerate
Samplerates == 1..MaxSamplerate

EmMetadata ==
    \E key \in {"SRD_CONF_SAMPLERATE"}, value \in Samplerates :
        LET r == metadata(em, options, key, value)
        IN  /\ em' = r.s
            /\ em_out' = r.out
            /\ em_exc' = r.exc
            /\ em_call' = [op |-> "metadata", arg |-> <<key, value>>]
            /\ UNCHANGED <<options, em_raised, frame_hist, stream_pos>>
            /\ UNCHANGED <<edge_hist, sym_hist>>
            /\ UNCHANGED jtag_vars

\* the batches the host may deliver: at most MaxBatch samples, each a gap of
\* at most MaxGap to the sample before it and a pin level
BatchShapes == UNION {[1..k -> (1..MaxGap) \X {0, 1}] : k \in 0..MaxBatch}

\* the sample number of the k-th sample of a batch delivered after pos
RECURSIVE SampleNum(_, _, _)
SampleNum(pos, shape, k) ==
    IF k = 0 THEN pos ELSE SampleNum(pos, shape, k - 1) + shape[k][1]

\* the data of a batch: (samplenum, pin) pairs
BatchData(pos, shape) ==
    [k \in 1..Len(shape) |-> <<SampleNum(pos, shape, k), shape[k][2]>>]

\* decode(ss, es, data)
EmDecode ==
    \E shape \in BatchShapes :
        LET data == BatchData(stream_pos, shape)
            r    == em4100_decode(em, data)
        IN  /\ SampleNum(stream_pos, shape, Len(shape)) <= MaxSamplenum
            /\ em' = r.s
            /\ em_out' = r.out
            /\ em_exc' = r.exc
            /\ em_call' = [op |-> "decode", arg |-> data]
            /\ em_raised' = (em_raised \/ r.exc = "SamplerateError")
            /\ stream_pos' = IF Len(data) = 0 THEN stream_pos
                             ELSE data[Len(data)][1]
            /\ UNCHANGED <<options, frame_hist, edge_hist, sym_hist>>
            /\ UNCHANGED jtag_vars

(***************************************************************************)
(* The frame state machine on its own: add_bit fed the symbols of          *)
(* well-formed frames, 1^9 (4 data bits, row parity)^10 (4 column-parity   *)
(* bits, stop bit), one after the other.  Symbol number n spans samples    *)
(* n..n+1.  frame_hist records what was fed, by its place in the frame.    *)
(***************************************************************************)
FrameLen == 9 + 50 + 5

\* the kind of the k-th annotation of one add_bit call
Kind(out, k) ==
    CASE out[k].idx = 1 -> "Header"
      [] out[k].idx = 2 -> "Data"
      [] out[k].idx = 3 -> "Value"
      [] out[k].idx = 4 -> out[k].txt[1]
      [] out[k].idx = 6 ->
            IF k > 1 /\ out[k - 1].idx = 3 THEN "RowVerdict" ELSE "ColVerdict"
      [] OTHER -> "Bit"

Kinds(out) == [k \in 1..Len(out) |-> Kind(out, k)]

\* frame_hist after feeding bit as symbol number h.fed, add_bit having put out
Fed(h, bit, out) ==
    LET i    == h.fed % FrameLen
        base == IF i = 0 THEN [NoHist EXCEPT !.fed = h.fed] ELSE h
        j    == IF i < 9 THEN 0 ELSE (i - 9) % 5
        grp  == IF i < 9 THEN <<>>
                ELSE IF j = 0 THEN <<bit>> ELSE Append(base.grp, bit)
        cols == IF i >= 9 /\ i < 59 /\ j < 4
                THEN [base.cols EXCEPT ![j + 1] = BitXor(@, bit)]
                ELSE base.cols
    IN  [fed |-> h.fed + 1, grp |-> grp, cols |-> cols,
         counts |-> [k \in DOMAIN base.counts |->
                       base.counts[k]
                       + Cardinality({n \in 1..Len(out) : Kind(out, n) = k})]]

FeedFrameSymbol ==
    /\ frame_hist.fed < MaxFrames * FrameLen
    /\ \E bit \in {0, 1} :
        /\ frame_hist.fed % FrameLen < 9 => bit = 1
        /\ LET r == add_bit(em, bit, Halves(frame_hist.fed),
                            Halves(frame_hist.fed + 1))
           IN  /\ em' = r.s
               /\ em_out' = r.out
               /\ em_exc' = "none"
               /\ em_call' = [op |-> "add_bit", arg |-> <<bit>>]
               /\ frame_hist' = Fed(frame_hist, bit, r.out)
               /\ UNCHANGED <<options, em_raised, stream_pos>>
               /\ UNCHANGED <<edge_hist, sym_hist>>
               /\ UNCHANGED jtag_vars

(***************************************************************************)
(* The em4100 decoder fed a signal edge by edge.  As sigrok does, the host *)
(* announces the samplerate before it delivers the first sample; the first *)
(* sample is sample 0, and every later decode call brings the one sample   *)
(* at which the level changes, a pulse length after the one before.        *)
(* edge_hist counts the pulses by the class the threshold gives them.      *)
(***************************************************************************)
\* a signal has at most MaxEdges edges after its first sample
MaxEdges == 5
\* the pulse lengths of a signal, in samples
PulseLengths == {1, 2, 3, 5, 600}
\* the samplerate of a capture at 1 MHz, beside the small ones
ScenarioSamplerates == {1000000}

\* metadata(SRD_CONF_SAMPLERATE, value), before the first sample
EmConfigure ==
    /\ stream_pos = -1
    /\ \E value \in Samplerates \cup ScenarioSamplerates :
        LET r == metadata(em, options, "SRD_CONF_SAMPLERATE", value)
        IN  /\ em' = r.s
            /\ em_out' = r.out
            /\ em_exc' = r.exc
            /\ em_call' = [op |-> "metadata",
                           arg |-> <<"SRD_CONF_SAMPLERATE", value>>]
            /\ UNCHANGED <<options, em_raised, frame_hist, stream_pos>>
            /\ UNCHANGED <<edge_hist, sym_hist>>
            /\ UNCHANGED jtag_vars

\* edge_hist after an edge that ends a pulse of pl samples, measured against
\* the threshold of s; out is what the decode call put
Pulsed(h, s, pl, out) ==
    LET long  == Gt(pl, s.halfbit_limit)
        short == Lt(pl, s.halfbit_limit)
        since == h.longs > 0 \/ long
        sym   == since /\ Len(out) > 0
    IN  [edges |-> h.edges + 1,
         pl |-> pl,
         oldpl |-> h.pl,
         wf |-> /\ h.wf
                /\ long \/ short
                /\ (long /\ h.longs > 0) => h.run % 2 = 0,
         longs |-> IF long THEN h.longs + 1 ELSE h.longs,
         shorts |-> IF short /\ h.longs > 0 THEN h.shorts + 1 ELSE h.shorts,
         run |-> IF long THEN 0
                 ELSE IF short /\ h.longs > 0 THEN h.run + 1 ELSE h.run,
         syms |-> IF sym THEN h.syms + 1 ELSE h.syms,
         last_stop |-> IF sym THEN out[1].es ELSE h.last_stop,
         prev_stop |-> h.last_stop]

\* decode(ss, es, data) with the one sample of the next level change (or,
\* first, sample 0 at either level)
EmEdge ==
    /\ ~Falsy(em.samplerate)
    /\ edge_hist.edges < MaxEdges
    /\ \E pl \in PulseLengths, level \in {0, 1} :
        LET first == stream_pos = -1
            samplenum == IF first THEN 0 ELSE stream_pos + pl
            pin  == IF first THEN level ELSE 1 - em.oldpin
            data == << <<samplenum, pin>> >>
            r    == em4100_decode(em, data)
        IN  /\ em' = r.s
            /\ em_out' = r.out
            /\ em_exc' = r.exc
            /\ em_call' = [op |-> "decode", arg |-> data]
            /\ em_raised' = (em_raised \/ r.exc = "SamplerateError")
            /\ stream_pos' = samplenum
            /\ edge_hist' = IF first THEN edge_hist
                            ELSE Pulsed(edge_hist, em,
                                        samplenum - em.oldsamplenum, r.out)
            /\ UNCHANGED <<options, frame_hist, sym_hist>>
            /\ UNCHANGED jtag_vars

(***************************************************************************)
(* The frame state machine fed any symbols at all: add_bit is given 0 or 1 *)
(* each time, symbol number n spanning samples n..n+1.  sym_hist keeps the *)
(* state the last symbol met (was), the symbols its visit to that state    *)
(* had consumed with it (stay), and, for a symbol met in HEADER, the       *)
(* length of the run of ones it ends (ones) and where that run began.      *)
(***************************************************************************)
\* add_bit is fed at most this many symbols
MaxSymbols == 76

\* sym_hist after feeding bit to the machine in state s, which went to t
Counted(h, s, t, bit) ==
    LET run == IF s.state = "HEADER" /\ bit = 1 THEN h.run + 1 ELSE 0
    IN  [fed |-> h.fed + 1,
         was |-> s.state,
         stay |-> h.visit + 1,
         visit |-> IF t.state = s.state THEN h.visit + 1 ELSE 0,
         ones |-> run,
         run |-> IF t.state = "HEADER" THEN run ELSE 0,
         run_start |-> IF run = 1 THEN Halves(h.fed) ELSE h.run_start]

FeedSymbol ==
    /\ sym_hist.fed < MaxSymbols
    /\ \E bit \in {0, 1} :
        LET r == add_bit(em, bit, Halves(sym_hist.fed),
                         Halves(sym_hist.fed + 1))
        IN  /\ em' = r.s
            /\ em_out' = r.out
            /\ em_exc' = "none"
            /\ em_call' = [op |-> "add_bit", arg |-> <<bit>>]
            /\ sym_hist' = Counted(sym_hist, em, r.s, bit)
            /\ UNCHANGED <<options, em_raised, frame_hist, stream_pos>>
            /\ UNCHANGED edge_hist
            /\ UNCHANGED jtag_vars

vars == <<jtag_vars, em_vars>>

Init == JtagInit /\ EmInit

\* the JTAG decoder on its own (it has no options)
JtagNext == JtagDecode
JtagSpecInit == Init /\ options = DefaultOptions
SpecJtag == JtagSpecInit /\ [][JtagNext]_vars

\* the frame state machine fed well-formed frames (add_bit reads no option)
FrameNext == FeedFrameSymbol
FrameSpecInit == Init /\ options = DefaultOptions
SpecFrame == FrameSpecInit /\ [][FrameNext]_vars

\* the em4100 decoder driven by the host: metadata and decode calls
DecodeNext == EmMetadata \/ EmDecode
DecodeSpecInit == Init /\ options.coilfreq = "8"
SpecDecode == DecodeSpecInit /\ [][DecodeNext]_vars

\* the em4100 decoder fed a signal edge by edge; with datarate 64 or 32 the
\* threshold is 6 or 3 samples (coil frequency 8, samplerate 1), 384 or 192
\* (125000, 1000000), below every pulse (125000, 1) or above every pulse
EdgesNext == EmConfigure \/ EmEdge
EdgesSpecInit == Init /\ options.datarate \in {"64", "32"}
SpecEdges == EdgesSpecInit /\ [][EdgesNext]_vars

\* the frame state machine fed any symbols (add_bit reads no option)
SymbolsNext == FeedSymbol
SymbolsSpecInit == Init /\ options = DefaultOptions
SpecSymbols == SymbolsSpecInit /\ [][SymbolsNext]_vars

\* both decoders, every call
Next == JtagNext \/ FrameNext \/ DecodeNext \/ EdgesNext \/ SymbolsNext
Spec == Init /\ [][Next]_vars

(***************************************************************************)
(* Properties of the em4100 frame state machine, under SpecFrame.          *)
(***************************************************************************)
\* the place in its frame of the symbol fed last
LastIndex == (frame_hist.fed - 1) % FrameLen
\* that symbol was the fifth of a payload group / the fifth trailer bit
RowDone == frame_hist.fed > 0 /\ LastIndex \in 9..58 /\ (LastIndex - 9) % 5 = 4
TrailerDone == frame_hist.fed > 0 /\ LastIndex = FrameLen - 1

\* the annotations a symbol at place i of a well-formed frame brings
ExpectedKinds(i) ==
    IF i = 8 THEN <<"Header">>
    ELSE IF i \in 9..58 /\ (i - 9) % 5 = 4
    THEN <<"Data", "Parity", "Value", "RowVerdict">>
    ELSE IF i = FrameLen - 1
    THEN <<"Column parity", "Stop bit", "ColVerdict">>
    ELSE <<>>

\* the verdicts, from the symbols that were fed
RowParityHolds(grp) == (grp[1] + grp[2] + grp[3] + grp[4]) % 2 = grp[5]
ColParityHolds(h) == \A c \in 1..4 : h.cols[c] = h.grp[c]
VerdictText(ok) == IF ok THEN "OK" ELSE "ERROR"

\* C1: every symbol of a well-formed frame brings exactly the annotations
\* of its place (a Header on the 9th, Data, Parity, nibble value and row
\* verdict on the 5th bit of each group, column parity, stop bit and column
\* verdict on the last), with verdicts that depend on this frame's symbols
\* alone; when the frame ends there has been one Header, ten row groups and
\* one trailer group and the machine is in HEADER; and so again for the
\* frame fed next.
C1_FrameAnnotations ==
    frame_hist.fed > 0 =>
        /\ Kinds(em_out) = ExpectedKinds(LastIndex)
        /\ RowDone =>
              em_out[4].txt[1] = VerdictText(RowParityHolds(frame_hist.grp))
        /\ TrailerDone =>
              /\ em_out[3].txt[1] = VerdictText(ColParityHolds(frame_hist))
              /\ em.state = "HEADER"
              /\ frame_hist.counts =
                    [k \in DOMAIN frame_hist.counts |->
                        IF k \in {"Header", "Column parity", "Stop bit",
                                  "ColVerdict"}
                        THEN 1 ELSE 10]

\* the second frame has just ended, with a row in error in its last group
\* seen as such and the column parity in order
C1_Witness ==
    /\ frame_hist.fed = 2 * FrameLen
    /\ em.state = "HEADER"
    /\ frame_hist.counts["Header"] = 1
    /\ frame_hist.counts["RowVerdict"] = 10
    /\ frame_hist.counts["ColVerdict"] = 1
    /\ Len(em_out) = 3
    /\ em_out[3].txt[1] = "OK"
    /\ frame_hist.cols = <<1, 1, 0, 1>>

\* C2: the row verdict put on the 5th bit of a payload group is OK exactly
\* when the XOR of the group's own 4 data bits equals its 5th bit, and ERROR
\* otherwise, for every group of every frame.
C2_RowParityVerdict ==
    RowDone =>
        /\ Len(em_out) = 4
        /\ em_out[4].idx = 6
        /\ em_out[4].txt[1] \in {"OK", "ERROR"}
        /\ em_out[4].txt[1] = "OK" <=> RowParityHolds(frame_hist.grp)

\* the tenth group of the second frame, nibble 1011 with parity 1: OK
C2_Witness ==
    /\ RowDone
    /\ frame_hist.fed = FrameLen + 59
    /\ frame_hist.grp = <<1, 0, 1, 1, 1>>
    /\ em_out[3].txt[1] = <<"B">>
    /\ em_out[4].txt[1] = "OK"

\* C3: the column verdict put on the 5th trailer bit is OK exactly when, for
\* each of the 4 nibble bit positions, the XOR of that position's data bits
\* over the 10 rows of this frame equals the matching one of the first 4
\* trailer bits, and ERROR otherwise; row-parity bits, the stop bit and
\* earlier frames have no part in it.
C3_ColumnParityVerdict ==
    TrailerDone =>
        /\ Len(em_out) = 3
        /\ em_out[3].idx = 6
        /\ em_out[3].txt[1] \in {"OK", "ERROR"}
        /\ em_out[3].txt[1] = "OK" <=> ColParityHolds(frame_hist)
        /\ em.data_col_parity = Zeros6
        /\ em.col_parity = Zeros6

\* the second frame ended with one trailer bit off, a stop bit of 1: ERROR
C3_Witness ==
    /\ TrailerDone
    /\ frame_hist.fed = 2 * FrameLen
    /\ frame_hist.cols = <<1, 0, 1, 1>>
    /\ frame_hist.grp = <<1, 0, 0, 1, 1>>
    /\ em_out[3].txt[1] = "ERROR"

(***************************************************************************)
(* Properties of em4100 decode, under SpecDecode.                          *)
(***************************************************************************)
\* C9: a decode call made with no samplerate raises SamplerateError with
\* nothing put and no field of the instance changed; a decode call made
\* with a samplerate does not raise (so a call after metadata succeeds).
C9_SamplerateChecked ==
    [][em_call'.op = "decode" =>
          IF Falsy(em.samplerate)
          THEN em_exc' = "SamplerateError" /\ em' = em /\ em_out' = <<>>
          ELSE em_exc' = "none"]_vars

\* after a decode call that raised, a call with two samples went through
C9_Witness ==
    /\ em_raised
    /\ em_call.op = "decode"
    /\ Len(em_call.arg) = 2
    /\ em_exc = "none"
    /\ em.oldpin # None

\* a batch without the samples whose level is the level seen just before
RECURSIVE WithoutDuplicates(_, _)
WithoutDuplicates(level, data) ==
    IF Len(data) = 0 THEN <<>>
    ELSE IF Head(data)[2] = level THEN WithoutDuplicates(level, Tail(data))
    ELSE <<Head(data)>> \o WithoutDuplicates(Head(data)[2], Tail(data))

\* the fields of the frame state machine
FrameFields(s) ==
    <<s.state, s.first_one, s.first_start, s.data, s.data_bits, s.data_start,
      s.data_parity, s.payload_cnt, s.data_col_parity, s.col_parity>>

\* C10: a decode call does to the instance, and puts, exactly what it would
\* for the same batch without its duplicate-level samples; a batch of
\* duplicates alone changes no field and puts nothing; and the very first
\* sample puts nothing and leaves the frame state as it was.
C10_DuplicatesIgnored ==
    [][(em_call'.op = "decode" /\ em_exc' = "none") =>
          LET data == em_call'.arg
              kept == WithoutDuplicates(em.oldpin, data)
          IN  /\ em4100_decode(em, kept) = Called(em', em_out', "none")
              /\ Len(kept) = 0 => (em' = em /\ em_out' = <<>>)
              /\ (em.oldpin = None /\ Len(data) = 1) =>
                    /\ em_out' = <<>>
                    /\ em'.oldpin = data[1][2]
                    /\ FrameFields(em') = FrameFields(em)]_vars

\* a batch of an edge that brought a symbol and then a duplicate sample
C10_Witness ==
    /\ em_call.op = "decode"
    /\ em_exc = "none"
    /\ Len(em_call.arg) = 2
    /\ em_call.arg[1][2] = em_call.arg[2][2]
    /\ Len(em_out) > 0
    /\ em.oldsamplenum = em_call.arg[1][1]

(***************************************************************************)
(* Properties of the JTAG decoder, over the most recent decode call.       *)
(***************************************************************************)
DrCmds == {"DR TDI", "DR TDO"}

\* bit i (0 = least significant = rightmost character) of a bit vector
VecBit(val, i) ==
    IF i >= Len(val) THEN 0 ELSE IF val[Len(val) - i] = "1" THEN 1 ELSE 0

HexDigitValue(c) == CHOOSE v \in 0..15 : LowerHex[v + 1] = c

Pow2(k) == CASE k = 0 -> 1 [] k = 1 -> 2 [] k = 2 -> 4 [] k = 3 -> 8

\* bit i of the number a string of hexadecimal digits denotes
HexBit(digits, i) ==
    IF i >= 4 * Len(digits) THEN 0
    ELSE (HexDigitValue(digits[Len(digits) - (i \div 4)]) \div Pow2(i % 4)) % 2

\* digits is what '%x' prints for the unsigned value of val
HexDenotes(digits, val) ==
    /\ Len(digits) >= 1
    /\ \A k \in 1..Len(digits) : \E v \in 0..15 : LowerHex[v + 1] = digits[k]
    /\ Len(digits) > 1 => digits[1] # "0"
    /\ \A i \in 0..(Max(4 * Len(digits), Len(val)) - 1) :
           HexBit(digits, i) = VecBit(val, i)

\* the data-register commands a non-Idle state accepts
Accepts(state, cmd) ==
    IF state = "BYPASS" THEN cmd = "DR TDI"
    ELSE state \in {"IDCODE", "DPACC", "APACC", "ABORT", "UNKNOWN"} /\ cmd \in DrCmds

\* C4: after a decode call made in a non-Idle state with a data-register
\* command that state accepts, the state is Idle, whatever the bit vector.
C4_ReturnsToIdle ==
    Accepts(jtag_call.state, jtag_call.cmd) => jtag_state = "IDLE"

\* the register IR[3:0] selects, read off the four rightmost bits
SelectedRegister(val) ==
    LET n == Len(val)
    IN  IF n < 4 THEN "UNKNOWN"
        ELSE LET b3 == VecBit(val, 3)
                 b2 == VecBit(val, 2)
                 b1 == VecBit(val, 1)
                 b0 == VecBit(val, 0)
             IN  CASE <<b3, b2, b1, b0>> = <<1, 1, 1, 1>> -> "BYPASS"
                   [] <<b3, b2, b1, b0>> = <<1, 1, 1, 0>> -> "IDCODE"
                   [] <<b3, b2, b1, b0>> = <<1, 0, 1, 0>> -> "DPACC"
                   [] <<b3, b2, b1, b0>> = <<1, 0, 1, 1>> -> "APACC"
                   [] <<b3, b2, b1, b0>> = <<1, 0, 0, 0>> -> "ABORT"
                   [] OTHER -> "UNKNOWN"

\* C5: in Idle an "IR TDI" command selects the state by the low 4 bits of
\* the vector alone (Unknown for every pattern outside the table, and for a
\* vector of fewer than 4 bits) and emits exactly one annotation, naming it.
C5_IrSelectsRegister ==
    (jtag_call.state = "IDLE" /\ jtag_call.cmd = "IR TDI") =>
        /\ jtag_state = SelectedRegister(jtag_call.val)
        /\ jtag_out = << <<"IR: ", SelectedRegister(jtag_call.val)>> >>
        /\ jtag_exc = "none"

\* an IR load of more than 4 bits, with a bit set above the low 4, selected
\* APACC
C5_Witness ==
    /\ jtag_call.state = "IDLE" /\ jtag_call.cmd = "IR TDI"
    /\ Len(jtag_call.val) = 5 /\ jtag_call.val[1] = "1"
    /\ jtag_state = "APACC"
    /\ jtag_out = << <<"IR: ", "APACC">> >>

\* C6: a 32-bit "DR TDI" vector received in IdCode (entered from Idle by
\* loading 1110) emits the one annotation "IDCODE: 0x<value>", <value> the
\* vector as an unsigned integer with the rightmost bit least significant,
\* and leaves the state machine in Idle.
C6_IdcodeDecodes ==
    (/\ jtag_call.state = "IDCODE" /\ jtag_call.cmd = "DR TDI"
     /\ Len(jtag_call.val) = 32) =>
        /\ jtag_exc = "none"
        /\ jtag_state = "IDLE"
        /\ Len(jtag_out) = 1
        /\ Len(jtag_out[1]) = 2
        /\ jtag_out[1][1] = "IDCODE: 0x"
        /\ HexDenotes(jtag_out[1][2], jtag_call.val)

\* the 32-bit vector 1 0...0 1 0 1 was decoded as IDCODE: 0x80000005
C6_Witness ==
    /\ jtag_call.state = "IDCODE" /\ jtag_call.cmd = "DR TDI"
    /\ Len(jtag_call.val) = 32
    /\ jtag_call.val[1] = "1"
    /\ SubSeq(jtag_call.val, 30, 32) = <<"1", "0", "1">>
    /\ jtag_out = << <<"IDCODE: 0x", <<"8", "0", "0", "0", "0", "0", "0", "5">> >> >>
    /\ jtag_state = "IDLE"

\* C7: for a 32-bit vector decoded in Abort, the first annotation reports
\* DAPABORT as bit 0 (the rightmost bit), "DAP abort generated" for 1 and
\* "No DAP abort generated" for 0, and the reserved-bits warning follows if
\* and only if one of bits 1..31 is non-zero.
C7_AbortBit0 ==
    (/\ jtag_call.state = "ABORT" /\ jtag_call.cmd \in DrCmds
     /\ Len(jtag_call.val) = 32) =>
        LET bit0 == VecBit(jtag_call.val, 0)
            text == IF bit0 = 1
                    THEN <<"DAPABORT = ", "1", ": ", "", "DAP abort generated">>
                    ELSE <<"DAPABORT = ", "0", ": ", "No ", "DAP abort generated">>
            warn == \E i \in 1..31 : VecBit(jtag_call.val, i) = 1
        IN  /\ jtag_exc = "none"
            /\ jtag_out = IF warn
                          THEN <<text, <<"WARNING: DAPABORT[31:1] reserved!">> >>
                          ELSE <<text>>

\* C8: a data-register transfer received in Unknown completes without
\* raising and emits an annotation whose text includes the raw bits.
C8_UnknownIsData ==
    (jtag_call.state = "UNKNOWN" /\ jtag_call.cmd \in DrCmds) =>
        /\ jtag_exc = "none"
        /\ \E k \in 1..Len(jtag_out) :
              \E j \in 1..Len(jtag_out[k]) : jtag_out[k][j] = jtag_call.val

(***************************************************************************)
(* Properties of the pulse classifier and bit assembler, under SpecEdges:  *)
(* every decode call there brings one sample, and after the first sample   *)
(* that sample is an edge.                                                 *)
(***************************************************************************)
\* the step is a decode call that brings an edge
EdgeStep == em_call'.op = "decode" /\ em.oldpin # None /\ em_exc' = "none"
\* the position of that edge, and the length of the pulse it ends
Position == em_call'.arg[1][1]
Pulse == Position - em.oldsamplenum
\* the pulse equals the threshold
AtThreshold(pl, f) == pl * f.den = f.num
\* the bit symbols among the annotations of one call
Symbols(out) == {k \in 1..Len(out) : out[k].idx = 0}

\* C11: an edge whose pulse equals half_bit_threshold exactly emits no
\* symbol (nor anything else), leaves the frame state machine and the
\* anchor last_bit_pos as they were; a pulse strictly above the threshold is
\* long (one symbol, which stops half a pulse before the edge, where the
\* anchor then is), a pulse strictly below it is short (a symbol, if any,
\* stops at the edge, where the anchor then is; the anchor stays otherwise).
C11_ThresholdTie ==
    [][EdgeStep =>
          /\ AtThreshold(Pulse, em.halfbit_limit) =>
                /\ em_out' = <<>>
                /\ FrameFields(em') = FrameFields(em)
                /\ em'.last_bit_pos = em.last_bit_pos
          /\ Pulse * em.halfbit_limit.den > em.halfbit_limit.num =>
                /\ Cardinality(Symbols(em_out')) = 1
                /\ em_out'[1].es = PyTrunc(Halves(Position) - Pulse)
                /\ em'.last_bit_pos = em_out'[1].es
          /\ Pulse * em.halfbit_limit.den < em.halfbit_limit.num =>
                IF em_out' = <<>>
                THEN em'.last_bit_pos = em.last_bit_pos
                ELSE /\ Cardinality(Symbols(em_out')) = 1
                     /\ em_out'[1].es = Position
                     /\ em'.last_bit_pos = Position]_vars

\* threshold 3: after a long pulse of 5 that set the anchor to 2, a pulse of
\* exactly 3 brought nothing and the anchor is still 2
C11_Witness ==
    /\ em_call.op = "decode"
    /\ edge_hist.edges = 2
    /\ em.halfbit_limit.num = 3 * em.halfbit_limit.den
    /\ em.oldpl = 3
    /\ em.oldsamplenum = 8
    /\ em_out = <<>>
    /\ em.last_bit_pos = 2

\* the configuration of the capture at 1 MHz: coil at 125 kHz, 64 cycles a bit
Scenario ==
    /\ options.coilfreq = "125000"
    /\ options.datarate = "64"
    /\ em.samplerate = 1000000

\* a fraction in lowest terms; two fractions denote the same number
RECURSIVE Gcd(_, _)
Gcd(a, b) == IF b = 0 THEN a ELSE Gcd(b, a % b)
Lowest(f) ==
    LET g == Gcd(f.num, f.den)
    IN  [num |-> f.num \div g, den |-> f.den \div g]
SameNumber(f, g) == Lowest(f) = Lowest(g)

\* C12: metadata derives bit_width = samplerate / coilfreq * datarate and
\* halfbit_limit = 3/4 of bit_width; with samplerate 1000000, coil frequency
\* 125000 and datarate 64 these are 512 and 384, and an edge that ends a
\* pulse of 600 samples is then taken for a long one (one symbol, stopping
\* 300 samples before the edge); a metadata call that announces the
\* samplerate already set changes no field.
C12_TimingDerivation ==
    [][/\ (em_call'.op = "metadata" /\ em_exc' = "none") =>
            /\ em'.samplerate = em_call'.arg[2]
            /\ SameNumber(em'.bit_width,
                          [num |-> em'.samplerate * OptionInt(options.datarate),
                           den |-> OptionInt(options.coilfreq)])
            /\ SameNumber(em'.halfbit_limit,
                          [num |-> 3 * em'.bit_width.num,
                           den |-> 4 * em'.bit_width.den])
            /\ Scenario' =>
                  /\ em'.bit_width.num = 512 * em'.bit_width.den
                  /\ em'.halfbit_limit.num = 384 * em'.halfbit_limit.den
            /\ em.samplerate = em_call'.arg[2] => em' = em
       /\ (EdgeStep /\ Scenario /\ Pulse = 600) =>
            /\ em.halfbit_limit.num = 384 * em.halfbit_limit.den
            /\ Cardinality(Symbols(em_out')) = 1
            /\ em_out'[1].es = Position - 300
            /\ em'.last_bit_pos = Position - 300]_vars

\* at 1 MHz, after short pulses of 5 and 1 samples, a pulse of 600 samples
\* brought a symbol that stops 300 samples before the edge
C12_Witness ==
    /\ Scenario
    /\ em.bit_width.num = 512 * em.bit_width.den
    /\ em.halfbit_limit.num = 384 * em.halfbit_limit.den
    /\ em_call.op = "decode"
    /\ edge_hist.edges = 3
    /\ em.oldpl = 600
    /\ em.oldsamplenum = 606
    /\ Len(em_out) >= 1
    /\ em_out[1].es = 306
    /\ em.last_bit_pos = 306

(***************************************************************************)
(* Further properties of the JTAG decoder, under SpecJtag.                 *)
(***************************************************************************)
\* the commands a state takes
Takes(state, cmd) ==
    CASE state = "IDLE" -> cmd = "IR TDI"
      [] state = "BYPASS" -> cmd = "DR TDI"
      [] OTHER -> cmd \in DrCmds

\* C13: a decode call whose command the current state does not take (any
\* but "IR TDI" in Idle, any but "DR TDI" in Bypass, any but "DR TDI" and
\* "DR TDO" in IdCode, Dpacc, Apacc, Abort and Unknown) returns normally
\* with the state unchanged and nothing put; so an "IR TDI" load in a
\* non-Idle state does not change the selected register.
C13_IgnoredCommand ==
    (jtag_call.state # "none" /\ ~Takes(jtag_call.state, jtag_call.cmd)) =>
        /\ jtag_state = jtag_call.state
        /\ jtag_out = <<>>
        /\ jtag_exc = "none"

\* Bypass was offered outgoing bits ("DR TDO") and stayed as it was
C13_Witness ==
    /\ jtag_call.state = "BYPASS"
    /\ jtag_call.cmd = "DR TDO"
    /\ Len(jtag_call.val) = 1
    /\ jtag_state = "BYPASS"
    /\ jtag_out = <<>>

\* the register A[3:2] addresses and the meaning of ACK[2:0], by value
RegisterName(a) ==
    CASE a = 0 -> "Reserved" [] a = 1 -> "DP CTRL/STAT"
      [] a = 2 -> "DP SELECT" [] a = 3 -> "DP RDBUFF"
AckMeaning(ack) ==
    CASE ack = 1 -> "WAIT" [] ack = 2 -> "OK/FAULT" [] OTHER -> "Reserved"

\* C14: a 35-bit vector decoded in Dpacc or Apacc, as "DR TDI" or as "DR
\* TDO", never fails and brings, after the raw bits, both readings: Data IN
\* with DATA = bits 34..3, A = the register bits 2..1 address and RnW = bit
\* 0 (1 a read request, 0 a write request), and Data OUT with the same DATA
\* and the meaning of ACK = bits 2..0; the state is Idle afterwards.
C14_BothReadings ==
    (/\ jtag_call.state \in {"DPACC", "APACC"} /\ jtag_call.cmd \in DrCmds
     /\ Len(jtag_call.val) = 35) =>
        LET bits == jtag_call.val
            data == SubSeq(bits, 1, 32)
            a    == 2 * VecBit(bits, 2) + VecBit(bits, 1)
            ack  == 4 * VecBit(bits, 2) + 2 * VecBit(bits, 1) + VecBit(bits, 0)
            rnw  == IF VecBit(bits, 0) = 1 THEN "Read request"
                    ELSE "Write request"
        IN  /\ jtag_exc = "none"
            /\ jtag_state = "IDLE"
            /\ Len(jtag_out) = 3
            /\ jtag_out[1] = <<IF jtag_call.state = "DPACC" THEN "DPACC: "
                               ELSE "APACC: ", bits>>
            /\ Len(jtag_out[2]) = 6
            /\ HexDenotes(jtag_out[2][2], data)
            /\ jtag_out[2] = <<"DATA: 0x", jtag_out[2][2], ", A: ",
                               RegisterName(a), ", RnW: ", rnw>>
            /\ jtag_out[3] = <<"DATA: 0x", jtag_out[2][2], ", ACK: ",
                               AckMeaning(ack)>>

\* Apacc, outgoing bits 1 0...0 1 010: DATA 0x80000001, A = DP CTRL/STAT, a
\* write request; ACK = OK/FAULT
C14_Witness ==
    /\ jtag_call.state = "APACC" /\ jtag_call.cmd = "DR TDO"
    /\ Len(jtag_call.val) = 35
    /\ jtag_state = "IDLE"
    /\ jtag_out[2] = <<"DATA: 0x", <<"8", "0", "0", "0", "0", "0", "0", "1">>,
                       ", A: ", "DP CTRL/STAT", ", RnW: ", "Write request">>
    /\ jtag_out[3] = <<"DATA: 0x", <<"8", "0", "0", "0", "0", "0", "0", "1">>,
                       ", ACK: ", "OK/FAULT">>

(***************************************************************************)
(* Properties of the frame state machine fed any symbols, under            *)
(* SpecSymbols.                                                            *)
(***************************************************************************)
\* C15: whatever the symbols, the state a symbol leaves differs from the
\* state it met only as HEADER -> PAYLOAD, PAYLOAD -> TRAILER or TRAILER ->
\* HEADER; PAYLOAD is left by the 50th symbol of the visit and by no other,
\* TRAILER by the 5th symbol of the visit and by no other.
C15_FrameCycle ==
    sym_hist.was # "none" =>
        /\ em.state # sym_hist.was =>
              <<sym_hist.was, em.state>> \in {<<"HEADER", "PAYLOAD">>,
                                              <<"PAYLOAD", "TRAILER">>,
                                              <<"TRAILER", "HEADER">>}
        /\ sym_hist.was = "PAYLOAD" =>
              (em.state = "TRAILER" <=> sym_hist.stay = 50)
        /\ sym_hist.was = "TRAILER" =>
              (em.state = "HEADER" <=> sym_hist.stay = 5)

\* a header that began at the third symbol, a payload with a row in error
\* and a trailer in error with a stop bit of 1: the 5th trailer symbol, 64
\* symbols after the header began, took the machine back to HEADER
C15_Witness ==
    /\ sym_hist.fed = 2 + FrameLen
    /\ sym_hist.was = "TRAILER"
    /\ sym_hist.stay = 5
    /\ em.state = "HEADER"
    /\ em_call.arg = <<1>>
    /\ Len(em_out) = 3
    /\ em_out[3].txt[1] = "ERROR"
    /\ em_out[1].ss = 2 + 9 + 50

\* C16: a symbol met in HEADER brings a Header annotation, and takes the
\* machine to PAYLOAD, exactly when it is the 9th of an uninterrupted run of
\* ones; the annotation spans from the start of the first one of that run
\* to the stop of the 9th.  Any other symbol met in HEADER brings nothing
\* and leaves the machine in HEADER (a 0 with the run counter at zero), and
\* the run counter is zero when HEADER is entered again after a trailer.
C16_HeaderRun ==
    /\ sym_hist.was = "HEADER" =>
          IF sym_hist.ones = 9
          THEN /\ em.state = "PAYLOAD"
               /\ em_out = <<[ss |-> PyTrunc(sym_hist.run_start),
                              es |-> sym_hist.fed, idx |-> 1,
                              txt |-> <<"Header", "Head", "He", "H">>]>>
               /\ PyTrunc(sym_hist.run_start) = sym_hist.fed - 9
          ELSE /\ em.state = "HEADER"
               /\ em_out = <<>>
               /\ em.first_one = sym_hist.ones
    /\ (sym_hist.was = "TRAILER" /\ em.state = "HEADER") => em.first_one = 0

\* after a first frame whose header came behind a broken run (1 1 0, then
\* nine ones), the second header: nine ones from symbol 67 on
C16_Witness ==
    /\ sym_hist.fed = 3 + FrameLen + 9
    /\ sym_hist.was = "HEADER"
    /\ sym_hist.ones = 9
    /\ em.state = "PAYLOAD"
    /\ Len(em_out) = 1
    /\ em_out[1].ss = 3 + FrameLen
    /\ em_out[1].es = 3 + FrameLen + 9

\* the counters of the frame state machine, but for the nibble accumulator
CountersInRange ==
    /\ em.payload_cnt \in 0..50
    /\ em.state = "TRAILER" => em.payload_cnt \in 0..5
    /\ em.data_bits \in 0..5

\* C19 as claimed: between symbols, after any symbol sequence, the payload
\* bit counter is within 0..50, the trailer bit counter within 0..5, the
\* within-group bit counter at most 5 and the nibble accumulator within
\* 0..15.
C19_CounterRanges ==
    /\ CountersInRange
    /\ em.data \in 0..15

\* C19 as amended: the counters are in those ranges, and the nibble
\* accumulator is within 0..31: within 0..15 while a group has 1 to 4 of its
\* bits in, and as the value put for a group; the row parity bit of a group
\* is shifted in as a fifth bit, and stays until the first bit of the next
\* group clears the accumulator.
C19_CounterRangesShifted ==
    /\ CountersInRange
    /\ em.data \in 0..31
    /\ em.data_bits \in 1..4 => em.data \in 0..15
    /\ em.data > 15 => sym_hist.was = "PAYLOAD" /\ Len(em_out) = 4
    /\ \A k \in 1..Len(em_out) :
          em_out[k].idx = 3 =>
              \E v \in 0..15 : em_out[k].txt = <<PyUpperHex(v)>>

\* the group 1 1 1 1 with row parity 1, right after the header: value F, and
\* the accumulator at 31
C19_Witness ==
    /\ sym_hist.fed = 9 + 5
    /\ sym_hist.was = "PAYLOAD"
    /\ em.state = "PAYLOAD"
    /\ em.data_bits = 0
    /\ em.payload_cnt = 5
    /\ em.data = 31
    /\ em_out[3].txt = << <<"F">> >>

\* a pulse is long above the threshold and short below it
Long(pl, f) == pl * f.den > f.num
Short(pl, f) == pl * f.den < f.num
\* the call put the one symbol that spans ss..es
OneSymbol(out, ss, es) ==
    /\ Cardinality(Symbols(out)) = 1
    /\ out[1].idx = 0
    /\ out[1].ss = ss
    /\ out[1].es = es

\* the call put one symbol whose span is, in half samples, ss2..es2
OneSymbolExact(out, ss2, es2) ==
    /\ Cardinality(Symbols(out)) = 1
    /\ out[1].idx = 0
    /\ Halves(out[1].ss) = ss2
    /\ Halves(out[1].es) = es2

\* C17 as claimed: an edge that has a previous edge brings at most one
\* symbol, and with both its pulse and the previous pulse strictly short or
\* long:
\*   long after long:   prev_position - prev_pulse/2 .. position - pulse/2
\*   long after short:  prev_position - prev_pulse   .. position - pulse/2
\*   short after long:  prev_position - prev_pulse/2 .. position, which
\*                      becomes the anchor
\*   short after short: prev_position - prev_pulse .. position, which
\*                      becomes the anchor, if the anchor is at or before
\*                      prev_position - prev_pulse; nothing, with the anchor
\*                      as it was, otherwise.
C17_FourCasesExact ==
    [][(EdgeStep /\ em.oldpl > 0) =>
          LET f         == em.halfbit_limit
              prev_mid  == Halves(em.oldsamplenum) - em.oldpl
              prev_edge == Halves(em.oldsamplenum - em.oldpl)
              mid       == Halves(Position) - Pulse
          IN  /\ Cardinality(Symbols(em_out')) <= 1
              /\ (Long(Pulse, f) /\ Long(em.oldpl, f)) =>
                    OneSymbolExact(em_out', prev_mid, mid)
              /\ (Long(Pulse, f) /\ Short(em.oldpl, f)) =>
                    OneSymbolExact(em_out', prev_edge, mid)
              /\ (Short(Pulse, f) /\ Long(em.oldpl, f)) =>
                    /\ OneSymbolExact(em_out', prev_mid, Halves(Position))
                    /\ em'.last_bit_pos = Position
              /\ (Short(Pulse, f) /\ Short(em.oldpl, f)) =>
                    IF Halves(em.last_bit_pos) <= prev_edge
                    THEN /\ OneSymbolExact(em_out', prev_edge, Halves(Position))
                         /\ em'.last_bit_pos = Position
                    ELSE /\ em_out' = <<>>
                         /\ em'.last_bit_pos = em.last_bit_pos]_vars

\* C17 as amended: the same four cases, with every start and stop cut down
\* to a whole sample, int(prev_position - prev_pulse/2) and int(position -
\* pulse/2): half a sample of an odd pulse is dropped.
C17_FourCases ==
    [][(EdgeStep /\ em.oldpl > 0) =>
          LET f         == em.halfbit_limit
              prev_mid  == PyTrunc(Halves(em.oldsamplenum) - em.oldpl)
              prev_edge == em.oldsamplenum - em.oldpl
              mid       == PyTrunc(Halves(Position) - Pulse)
          IN  /\ Cardinality(Symbols(em_out')) <= 1
              /\ (Long(Pulse, f) /\ Long(em.oldpl, f)) =>
                    OneSymbol(em_out', prev_mid, mid)
              /\ (Long(Pulse, f) /\ Short(em.oldpl, f)) =>
                    OneSymbol(em_out', prev_edge, mid)
              /\ (Short(Pulse, f) /\ Long(em.oldpl, f)) =>
                    /\ OneSymbol(em_out', prev_mid, Position)
                    /\ em'.last_bit_pos = Position
              /\ (Short(Pulse, f) /\ Short(em.oldpl, f)) =>
                    IF em.last_bit_pos <= prev_edge
                    THEN /\ OneSymbol(em_out', prev_edge, Position)
                         /\ em'.last_bit_pos = Position
                    ELSE /\ em_out' = <<>>
                         /\ em'.last_bit_pos = em.last_bit_pos]_vars

\* threshold 3, pulses 5 2 2 1: the long pulse of 5 brought 0..2, the short
\* one at 7 the symbol 2..7 (from int(5 - 5/2)) and set the anchor to 7, the
\* one at 9 brought nothing, the one at 10 brought the symbol 7..10
C17_Witness ==
    /\ em_call.op = "decode"
    /\ em.halfbit_limit.num = 3 * em.halfbit_limit.den
    /\ edge_hist.edges = 4
    /\ edge_hist.pl = 1
    /\ edge_hist.oldpl = 2
    /\ em.oldsamplenum = 10
    /\ OneSymbol(em_out, 7, 10)
    /\ em.last_bit_pos = 10

\* every symbol the step put has this value
SymbolsAre(out, bit) ==
    \A k \in Symbols(out) : out[k].txt = <<PyStr(bit)>>

\* C18 as claimed: the value of every symbol is the pin level before the
\* edge that brings it, inverted with polarity active-low and unchanged with
\* active-high (the default).
C18_ActiveLowInverts ==
    [][EdgeStep =>
          SymbolsAre(em_out', IF options.polarity = "active-low"
                              THEN 1 - em.oldpin ELSE em.oldpin)]_vars

\* C18 as amended: the value of every symbol is the pin level before the
\* edge that brings it, inverted with polarity active-high (the default) and
\* unchanged with active-low.
C18_ActiveHighInverts ==
    [][EdgeStep =>
          SymbolsAre(em_out', IF options.polarity = "active-high"
                              THEN 1 - em.oldpin ELSE em.oldpin)]_vars

\* active-high: an edge from 0 up to 1 brought a symbol of value 1
C18_Witness ==
    /\ options.polarity = "active-high"
    /\ em.polarity = 1
    /\ em_call.op = "decode"
    /\ edge_hist.edges = 2
    /\ em_call.arg[1][2] = 1
    /\ Symbols(em_out) = {1}
    /\ em_out[1].txt = <<"1">>

\* C20: on a signal whose pulses are all strictly short or strictly long,
\* with an even number of short pulses between any two long ones, the
\* symbols from the first long pulse on are one for each long pulse and one
\* for each pair of short pulses (the first pulse of a pair brings it), each
\* with start <= stop and starting where the symbol before it stopped.
C20_NoDrift ==
    (edge_hist.wf /\ edge_hist.longs > 0) =>
        /\ edge_hist.syms = edge_hist.longs + (edge_hist.shorts + 1) \div 2
        /\ Cardinality(Symbols(em_out)) <= 1
        /\ Symbols(em_out) # {} =>
              /\ em_out[1].ss <= em_out[1].es
              /\ em_out[1].es = edge_hist.last_stop
              /\ edge_hist.prev_stop # None =>
                    em_out[1].ss = edge_hist.prev_stop

\* threshold 3, pulses 5 2 2 5 5: the symbols 0..2, 2..7, 7..11, 11..16
C20_Witness ==
    /\ em.halfbit_limit.num = 3 * em.halfbit_limit.den
    /\ edge_hist.wf
    /\ edge_hist.edges = 5
    /\ edge_hist.longs = 3
    /\ edge_hist.shorts = 2
    /\ edge_hist.syms = 4
    /\ edge_hist.prev_stop = 11
    /\ OneSymbol(em_out, 11, 16)

====
